---- MODULE Spec2Model ----
(***************************************************************************)
(* The WebSocket broadcast layer of the chat server (registerRoutes): the  *)
(* per-connection registry (ws.userId, ws.roomId), the room membership map *)
(* (rooms: Map<number, Set<Client>>), and the "message", "error" and       *)
(* "close" handlers of every connection.  The "message" handler is async:  *)
(* it is split at its awaits (storage.getRoom, supabase insert), and the   *)
(* continuations of different events, of the same or of different          *)
(* connections, interleave.                                                *)
(***************************************************************************)
EXTENDS Integers, Sequences, FiniteSets, TLC

(* ---------------------------------------------------------------- bounds *)
NConn == 2          \* connections accepted by the server
MaxEvents == 3      \* inbound frames received over all connections
MaxPending == 2     \* handlers suspended at an await at the same time
NReq == 3           \* POST /api/rooms requests the server is sent

(* ------------------------------------------------------------ value sets *)
Undefined == -1     \* undefined: a field not set, a row not found
NoSet == 0          \* rooms.get(id) === undefined

Conns == 1..NConn
ExistingRooms == {1, 2}          \* ids of the rows of public.rooms
RoomIdVals == {1, 2, 3}          \* 3: no such room
SetRefs == 1..(Cardinality(RoomIdVals) + MaxPending)

\* What clients put in their frames.  The ChatRoom component sends its join
\* with the user's id, the ChatProvider hook sends it without one; nothing ties
\* the userId of a message to the one the connection joined with.
JoinSenders ==
  { [userId |-> 1, username |-> "alice"],
    [userId |-> Undefined, username |-> "bob"] }
MessageSenders ==
  { [userId |-> 1, username |-> "alice", content |-> "hi", encrypted |-> FALSE],
    [userId |-> 2, username |-> "bob", content |-> "U2FsdGVk", encrypted |-> TRUE] }

JoinFrames ==
  { [type |-> "join", roomId |-> r, userId |-> s.userId, username |-> s.username] :
      r \in RoomIdVals, s \in JoinSenders }
MessageFrames ==
  { [type |-> "message", roomId |-> r, userId |-> s.userId, username |-> s.username,
     content |-> s.content, encrypted |-> s.encrypted] :
      r \in RoomIdVals, s \in MessageSenders }
LeaveFrames ==
  { [type |-> "leave", roomId |-> 1, userId |-> 1, username |-> "alice"] }

\* POST /api/rooms: the requests, the room names their bodies carry, and the
\* value of a response that carries no room.  Request r is sent by user r.
Reqs == 1..NReq
RoomNames == {"general", "random"}
NoRow == [name |-> "", creator_id |-> 0]

VARIABLES
  readyState,   \* client.readyState of every connection
  wsUserId,     \* ws.userId
  wsRoomId,     \* ws.roomId
  rooms,        \* the Map: room id -> reference of its Set, or NoSet
  heap,         \* the Set objects: reference -> members in insertion order
  pending,      \* handlers suspended at an await
  outbox,       \* what client.send() wrote to every connection, in order
  nextId,       \* frames received so far, plus one: the next frame's id
  inserts,      \* the rows handed to supabase.from('messages').insert
  dropped,      \* the frames a handler returned from without a send
  sendThrows,   \* connections whose send() throws (transport fault)
  crashed,      \* an exception escaped an event listener
  fanouts,      \* history: every forEach over a member set that was run
  closes,       \* history: every "close" event that was handled
  roomRows,     \* the rows of public.rooms that POST /api/rooms created
  reqs          \* every POST /api/rooms request: where it is, its response

vars == <<readyState, wsUserId, wsRoomId, rooms, heap, pending, outbox,
          nextId, inserts, dropped, sendThrows, crashed, fanouts, closes,
          roomRows, reqs>>

\* The state of the WebSocket handlers, and that of the HTTP route.
wsVars == <<readyState, wsUserId, wsRoomId, rooms, heap, pending, outbox,
            nextId, inserts, dropped, sendThrows, crashed, fanouts, closes>>

httpVars == <<roomRows, reqs>>

hist == <<fanouts, closes>>

(* --------------------------------------------------------------- helpers *)
Range(s) == {s[i] : i \in 1..Len(s)}

\* JavaScript truthiness of an optional number: undefined and 0 are falsy.
Truthy(v) == v # Undefined /\ v # 0

\* add as it would be were the Set begun anew with the element.
SetAdd_Replace(s, c) == <<c>>

\* add as it would be were the members kept in an array and pushed to.
SetAdd_Push(s, c) == Append(s, c)

\* Set.prototype.add: an element already present keeps its place.
SetAdd(s, c) == IF c \in Range(s) THEN s ELSE Append(s, c)

\* Set.prototype.delete
SetDelete(s, c) == SelectSeq(s, LAMBDA x : x # c)

\* References no live variable holds: neither the Map nor a suspended handler.
FreeRefs ==
  {r \in SetRefs : (\A k \in RoomIdVals : rooms[k] # r)
                   /\ (\A p \in pending : p.set # r)}

NewSetRef == CHOOSE r \in FreeRefs : \A q \in FreeRefs : r <= q

\* The lookup as it would be were a new Set made for every join.
RoomSet_AlwaysNew(roomId) == NewSetRef

\* let roomClients = rooms.get(roomId);
\* if (!roomClients) { roomClients = new Set(); rooms.set(roomId, roomClients) }
RoomSet(roomId) == IF rooms[roomId] = NoSet THEN NewSetRef ELSE rooms[roomId]

\* The loop as it would be were it left after its first send.
FanOut_FirstOnly(clients, ev, ob, rs) ==
  LET open == SelectSeq(clients, LAMBDA c : rs[c] = "OPEN") IN
  IF open = <<>> THEN [outbox |-> ob, threw |-> FALSE]
  ELSE IF sendThrows[Head(open)] THEN [outbox |-> ob, threw |-> TRUE]
  ELSE [outbox |-> [ob EXCEPT ![Head(open)] = Append(@, ev)], threw |-> FALSE]

\* The loop as it would be were every open member sent the event twice.
FanOut_SendTwice(clients, ev, ob, rs) ==
  [outbox |-> [c \in Conns |->
                 IF c \in Range(clients) /\ rs[c] = "OPEN"
                 THEN ob[c] \o <<ev, ev>> ELSE ob[c]],
   threw |-> FALSE]

\* The loop as it would be were it over every connection of the server.
FanOut_AllConnections(clients, ev, ob, rs) ==
  [outbox |-> [c \in Conns |-> IF rs[c] = "OPEN" THEN Append(ob[c], ev) ELSE ob[c]],
   threw |-> FALSE]

\* roomClients.forEach(client => { if (client.readyState === OPEN) client.send(ev) })
\* A send() that throws ends the iteration.
RECURSIVE FanOut(_, _, _, _)
FanOut(clients, ev, ob, rs) ==
  IF clients = <<>> THEN [outbox |-> ob, threw |-> FALSE]
  ELSE LET client == Head(clients) IN
       IF rs[client] = "OPEN"
       THEN IF sendThrows[client]
            THEN [outbox |-> ob, threw |-> TRUE]
            ELSE FanOut(Tail(clients), ev, [ob EXCEPT ![client] = Append(@, ev)], rs)
       ELSE FanOut(Tail(clients), ev, ob, rs)

\* The store's answer to .select().eq('id', id).single(): a row, or an error;
\* no row is the error PGRST116.
StoreSingle(id, fault) ==
  IF fault THEN [data |-> Undefined, error |-> "fetch failed"]
  ELSE IF id \in ExistingRooms THEN [data |-> id, error |-> ""]
  ELSE [data |-> Undefined, error |-> "PGRST116"]

\* getRoom as it would be were the store's error not looked at.
GetRoom_ErrorIgnored(id, fault) == [threw |-> FALSE, room |-> id]

\* storage.getRoom: throws on an error, else returns data || undefined
GetRoom(id, fault) ==
  LET res == StoreSingle(id, fault) IN
  IF res.error # "" THEN [threw |-> TRUE, room |-> Undefined]
  ELSE [threw |-> FALSE, room |-> res.data]

joinMessage(message, id) ==
  [type |-> "join", userId |-> message.userId, username |-> message.username,
   roomId |-> message.roomId, id |-> id]

messageToSend(message, id) ==
  [type |-> "message", roomId |-> message.roomId, userId |-> message.userId,
   username |-> message.username, content |-> message.content,
   encrypted |-> message.encrypted, id |-> id]

\* The leave notice of connection c; its id is not a frame's.
leaveMessage(c) ==
  [type |-> "leave", roomId |-> wsRoomId[c], userId |-> wsUserId[c],
   username |-> "", id |-> 0 - c]

\* The row as it would be were every message stored as plain text.
insertRow_Plain(message, id) ==
  [room_id |-> message.roomId, user_id |-> message.userId,
   content |-> message.content, encrypted |-> FALSE, id |-> id]

\* supabase.from('messages').insert({room_id, user_id, content, encrypted})
insertRow(message, id) ==
  [room_id |-> message.roomId, user_id |-> message.userId,
   content |-> message.content, encrypted |-> message.encrypted, id |-> id]

(* ------------------------------------------------------------------ Init *)
Init ==
  /\ readyState = [c \in Conns |-> "OPEN"]
  /\ wsUserId = [c \in Conns |-> Undefined]
  /\ wsRoomId = [c \in Conns |-> Undefined]
  /\ rooms = [k \in RoomIdVals |-> NoSet]
  /\ heap = [r \in SetRefs |-> <<>>]
  /\ pending = {}
  /\ outbox = [c \in Conns |-> <<>>]
  /\ nextId = 1
  /\ inserts = {}
  /\ dropped = {}
  /\ sendThrows = [c \in Conns |-> FALSE]
  /\ crashed = FALSE
  /\ fanouts = {}
  /\ closes = {}
  /\ roomRows = {}
  /\ reqs = [r \in Reqs |->
               [pc |-> "idle", name |-> "", status |-> 0, message |-> "",
                room |-> NoRow, fault |-> FALSE]]

\* The "message" event fires on a connection whose transport is open.
CanReceive(c) ==
  /\ ~crashed
  /\ readyState[c] = "OPEN"
  /\ nextId <= MaxEvents

Suspend(p) ==
  /\ Cardinality(pending) < MaxPending
  /\ pending' = pending \cup {p}

\* A frame the handler returns from without a send; room: ws.roomId then.
Drop(id, c, why) ==
  dropped' = dropped \cup {[id |-> id, conn |-> c, why |-> why, room |-> wsRoomId[c]]}

\* One forEach: the handler's connection, the frame it handles, the event sent,
\* the members iterated, whether the handler left every readyState as it was,
\* the members when the handler began, and the insert's result.
Log(by, frame, ev, clients, rs, rsAfter, atStart, result) ==
  fanouts' = fanouts \cup
    {[by |-> by, frame |-> frame, ev |-> ev, clients |-> clients,
      kept |-> (rsAfter = rs), atStart |-> atStart, result |-> result]}

(* --------------------------------------------------- ws.on("message") *)
\* JSON.parse throws: the outer catch logs.
RecvUnparsable(c) ==
  /\ CanReceive(c)
  /\ UNCHANGED httpVars
  /\ nextId' = nextId + 1
  /\ Drop(nextId, c, "parse")
  /\ UNCHANGED <<readyState, wsUserId, wsRoomId, rooms, heap, pending, outbox,
                 inserts, sendThrows, crashed, hist>>

\* The handler as it would be had it a branch for "leave" that takes the
\* connection out of the member sets.
RecvOther_Leaves(c, message) ==
  /\ CanReceive(c)
  /\ UNCHANGED httpVars
  /\ message.type \notin {"join", "message"}
  /\ nextId' = nextId + 1
  /\ Drop(nextId, c, "type")
  /\ heap' = [r \in SetRefs |-> SetDelete(heap[r], c)]
  /\ UNCHANGED <<readyState, wsUserId, wsRoomId, rooms, pending, outbox,
                 inserts, sendThrows, crashed, hist>>

\* A type that is neither "join" nor "message": no branch is taken.
RecvOther(c, message) ==
  /\ CanReceive(c)
  /\ UNCHANGED httpVars
  /\ message.type \notin {"join", "message"}
  /\ nextId' = nextId + 1
  /\ Drop(nextId, c, "type")
  /\ UNCHANGED <<readyState, wsUserId, wsRoomId, rooms, heap, pending, outbox,
                 inserts, sendThrows, crashed, hist>>

\* type "join" up to `await storage.getRoom(message.roomId)`
RecvJoin(c, message) ==
  /\ CanReceive(c)
  /\ UNCHANGED httpVars
  /\ message.type = "join"
  /\ nextId' = nextId + 1
  /\ Suspend([id |-> nextId, conn |-> c, message |-> message, set |-> NoSet,
              atStart |-> <<>>])
  /\ UNCHANGED <<readyState, wsUserId, wsRoomId, rooms, heap, outbox,
                 inserts, dropped, sendThrows, crashed, hist>>

\* the join branch after the await; fault: the store request fails.  Nothing
\* looks at ws.readyState before ws is added.  An exception of the forEach is
\* caught by the branch's catch and logged.
JoinResume(p, fault) ==
  /\ ~crashed
  /\ UNCHANGED httpVars
  /\ p.message.type = "join"
  /\ pending' = pending \ {p}
  /\ LET message == p.message
         ws == p.conn
         got == GetRoom(message.roomId, fault)
     IN
     IF got.threw \/ got.room = Undefined
     THEN /\ Drop(p.id, ws, "no room")
          /\ UNCHANGED <<readyState, wsUserId, wsRoomId, rooms, heap, outbox,
                         nextId, inserts, sendThrows, crashed, hist>>
     ELSE LET ref == RoomSet(message.roomId)
              roomClients == SetAdd(heap[ref], ws)
              sent == FanOut(roomClients, joinMessage(message, p.id), outbox, readyState)
          IN
          /\ UNCHANGED <<readyState, nextId, inserts, dropped, sendThrows, crashed,
                         closes>>
          /\ wsUserId' = [wsUserId EXCEPT ![ws] = message.userId]
          /\ wsRoomId' = [wsRoomId EXCEPT ![ws] = message.roomId]
          /\ rooms' = [rooms EXCEPT ![message.roomId] = ref]
          /\ heap' = [heap EXCEPT ![ref] = roomClients]
          /\ outbox' = sent.outbox
          /\ Log(ws, message, joinMessage(message, p.id), roomClients, readyState,
                 readyState', roomClients, "none")

\* type "message" up to `await supabase.from('messages').insert(...)`
RecvMessage(c, message) ==
  /\ CanReceive(c)
  /\ UNCHANGED httpVars
  /\ message.type = "message"
  /\ nextId' = nextId + 1
  /\ LET roomClients == rooms[message.roomId] IN
     IF roomClients = NoSet
     THEN /\ Drop(nextId, c, "no entry")
          /\ UNCHANGED <<pending, inserts>>
     ELSE /\ Suspend([id |-> nextId, conn |-> c, message |-> message,
                      set |-> roomClients, atStart |-> heap[roomClients]])
          /\ inserts' = inserts \cup
               {[row |-> insertRow(message, nextId), result |-> "pending"]}
          /\ UNCHANGED dropped
  /\ UNCHANGED <<readyState, wsUserId, wsRoomId, rooms, heap, outbox,
                 sendThrows, crashed, hist>>

InsertResults == {"ok", "error", "throw"}

insertCaught_Rethrown(result) == result # "throw"

\* try { await insert } catch (error) { console.error }: whether control goes
\* on to the forEach.  The insert resolves with a result nobody reads ("ok",
\* "error") or rejects ("throw") and the catch logs.
insertCaught(result) == TRUE

\* the message branch after the await: the Set iterated is the object got
\* before the await.  An exception of the forEach is caught and logged.
MessageResume(p, result) ==
  /\ ~crashed
  /\ UNCHANGED httpVars
  /\ p.message.type = "message"
  /\ result \in InsertResults
  /\ pending' = pending \ {p}
  /\ UNCHANGED <<readyState, wsUserId, wsRoomId, rooms, heap, nextId, dropped,
                 sendThrows, crashed, closes>>
  /\ LET row == insertRow(p.message, p.id)
         sent == FanOut(heap[p.set], messageToSend(p.message, p.id), outbox, readyState)
     IN
     /\ inserts' = (inserts \ {[row |-> row, result |-> "pending"]})
                     \cup {[row |-> row, result |-> result]}
     /\ IF insertCaught(result)
        THEN /\ outbox' = sent.outbox
             /\ Log(p.conn, p.message, messageToSend(p.message, p.id), heap[p.set],
                    readyState, readyState', p.atStart, result)
        ELSE UNCHANGED <<outbox, fanouts>>

(* ----------------------------------------------------- ws.on("error") *)
\* The listener as it would be were it to terminate the connection.
TransportError_Terminates(c) ==
  /\ ~crashed
  /\ UNCHANGED httpVars
  /\ readyState[c] = "OPEN"
  /\ readyState' = [readyState EXCEPT ![c] = "CLOSED"]
  /\ UNCHANGED <<wsUserId, wsRoomId, rooms, heap, pending, outbox, nextId,
                 inserts, dropped, sendThrows, crashed, hist>>

\* console.error('WebSocket error:', error): the listener only logs.
TransportError(c) ==
  /\ ~crashed
  /\ readyState[c] = "OPEN"
  /\ UNCHANGED vars

(* ----------------------------------------------------- ws.on("close") *)
\* The close handler as it would be were the entry of an emptied Set kept.
LastMemberLeft_Never(roomClients) == FALSE

\* The close handler as it would be were the entry deleted at every close.
LastMemberLeft_Always(roomClients) == TRUE

\* if (roomClients.size === 0) rooms.delete(ws.roomId)
LastMemberLeft(roomClients) == Len(roomClients) = 0

\* The transport of c closed: c no longer reads OPEN when the listener runs.
\* Nothing catches an exception of the forEach here.
Close(c) ==
  /\ ~crashed
  /\ UNCHANGED httpVars
  /\ readyState[c] = "OPEN"
  /\ readyState' = [readyState EXCEPT ![c] = "CLOSED"]
  /\ LET entry == IF wsRoomId[c] \in RoomIdVals THEN rooms[wsRoomId[c]] ELSE NoSet
         before == IF entry = NoSet THEN <<>> ELSE heap[entry]
     IN
     IF Truthy(wsRoomId[c]) /\ Truthy(wsUserId[c]) /\ rooms[wsRoomId[c]] # NoSet
     THEN LET ref == rooms[wsRoomId[c]]
              roomClients == SetDelete(heap[ref], c)
              sent == FanOut(roomClients, leaveMessage(c), outbox, readyState')
          IN
          /\ heap' = [heap EXCEPT ![ref] = roomClients]
          /\ closes' = closes \cup
               {[conn |-> c, roomId |-> wsRoomId[c], userId |-> wsUserId[c],
                 before |-> before, after |-> roomClients]}
          /\ IF LastMemberLeft(roomClients)
             THEN /\ rooms' = [rooms EXCEPT ![wsRoomId[c]] = NoSet]
                  /\ UNCHANGED <<outbox, crashed, fanouts>>
             ELSE /\ outbox' = sent.outbox
                  /\ crashed' = sent.threw
                  /\ Log(c, [type |-> "close"], leaveMessage(c), roomClients,
                         readyState', readyState', roomClients, "none")
                  /\ UNCHANGED rooms
     ELSE /\ closes' = closes \cup
               {[conn |-> c, roomId |-> wsRoomId[c], userId |-> wsUserId[c],
                 before |-> before, after |-> before]}
          /\ UNCHANGED <<rooms, heap, outbox, crashed, fanouts>>
  /\ UNCHANGED <<wsUserId, wsRoomId, pending, nextId, inserts, dropped, sendThrows>>

(* ------------------------------------------------------ transport fault *)
\* From now on send() on this connection throws although it reads OPEN; one
\* connection at most is faulty.
SendBreaks(c) ==
  /\ ~crashed
  /\ UNCHANGED httpVars
  /\ readyState[c] = "OPEN"
  /\ \A d \in Conns : ~sendThrows[d]
  /\ sendThrows' = [sendThrows EXCEPT ![c] = TRUE]
  /\ UNCHANGED <<readyState, wsUserId, wsRoomId, rooms, heap, pending, outbox,
                 nextId, inserts, dropped, crashed, hist>>

Next ==
  \/ \E c \in Conns : RecvUnparsable(c)
  \/ \E c \in Conns, m \in LeaveFrames : RecvOther(c, m)
  \/ \E c \in Conns, m \in JoinFrames : RecvJoin(c, m)
  \/ \E p \in pending, fault \in BOOLEAN : JoinResume(p, fault)
  \/ \E c \in Conns, m \in MessageFrames : RecvMessage(c, m)
  \/ \E p \in pending, result \in InsertResults : MessageResume(p, result)
  \/ \E c \in Conns : TransportError(c)
  \/ \E c \in Conns : Close(c)

Spec == Init /\ [][Next]_vars

\* The same server on transports whose send() may throw.
NextSendFail ==
  \/ Next
  \/ \E c \in Conns : SendBreaks(c)

SpecSendFail == Init /\ [][NextSendFail]_vars

(* ------------------------------------------------- an insert that hangs *)
\* The promise of `await supabase.from('messages').insert(...)` never
\* settles (the request gets no answer): the handler stays suspended for
\* good, and what follows the await, the forEach, is never run.
InsertHangs(p) ==
  /\ ~crashed
  /\ UNCHANGED httpVars
  /\ p.message.type = "message"
  /\ pending' = pending \ {p}
  /\ LET row == insertRow(p.message, p.id) IN
     inserts' = (inserts \ {[row |-> row, result |-> "pending"]})
                  \cup {[row |-> row, result |-> "never"]}
  /\ UNCHANGED <<readyState, wsUserId, wsRoomId, rooms, heap, outbox, nextId,
                 dropped, sendThrows, crashed, hist>>

NextLive ==
  \/ Next
  \/ \E p \in pending : InsertHangs(p)

\* The event loop runs the continuation of every promise that settles: a room
\* lookup always settles, an insert settles unless it hangs.
SpecLive ==
  /\ Init
  /\ [][NextLive]_vars
  /\ WF_vars(\E p \in pending, fault \in BOOLEAN : JoinResume(p, fault))
  /\ WF_vars(\E p \in pending, result \in InsertResults : MessageResume(p, result))

(* ------------------------------------------------ app.post("/api/rooms") *)
\* The rows of public.rooms are those that were there (ExistingRooms, whose
\* names no request carries) and roomRows.  The row's id (SERIAL) and its
\* password play no part in the route's answers and are left out.

\* storage.getRoomByName: the no-rows error PGRST116 is answered undefined,
\* any other error is thrown.
getRoomByName(name, fault) ==
  IF fault THEN [threw |-> TRUE, room |-> NoRow]
  ELSE IF \E row \in roomRows : row.name = name
       THEN [threw |-> FALSE, room |-> CHOOSE row \in roomRows : row.name = name]
       ELSE [threw |-> FALSE, room |-> NoRow]

\* storage.createRoom: insert(...).select().single(); the store refuses a
\* second row of the same name (name TEXT NOT NULL UNIQUE), and createRoom
\* throws on every error of the store.
createRoom(room, fault) ==
  IF fault \/ \E row \in roomRows : row.name = room.name
  THEN [threw |-> TRUE, room |-> NoRow, rows |-> roomRows]
  ELSE [threw |-> FALSE, room |-> room, rows |-> roomRows \cup {room}]

Respond(r, status, message, room, fault) ==
  reqs' = [reqs EXCEPT ![r] = [pc |-> "done", name |-> reqs[r].name,
                               status |-> status, message |-> message,
                               room |-> room, fault |-> fault]]

\* if (!req.isAuthenticated()) return res.sendStatus(401)
PostRoomsUnauthorized(r) ==
  /\ reqs[r].pc = "idle"
  /\ Respond(r, 401, "", NoRow, FALSE)
  /\ UNCHANGED <<wsVars, roomRows>>

\* insertRoomSchema.parse(req.body) throws a ZodError
PostRoomsInvalid(r) ==
  /\ reqs[r].pc = "idle"
  /\ Respond(r, 400, "Invalid room data", NoRow, FALSE)
  /\ UNCHANGED <<wsVars, roomRows>>

\* an authenticated request with a valid body, up to
\* `await storage.getRoomByName(roomData.name)`
PostRooms(r, name) ==
  /\ reqs[r].pc = "idle"
  /\ reqs' = [reqs EXCEPT ![r].pc = "lookup", ![r].name = name]
  /\ UNCHANGED <<wsVars, roomRows>>

\* from the name check to `await storage.createRoom(...)`
GetRoomByNameResume(r, fault) ==
  /\ reqs[r].pc = "lookup"
  /\ LET existingRoom == getRoomByName(reqs[r].name, fault) IN
     IF existingRoom.threw
     THEN Respond(r, 500, "Failed to create room", NoRow, TRUE)
     ELSE IF existingRoom.room # NoRow
          THEN Respond(r, 400, "Room name already exists", NoRow, FALSE)
          ELSE reqs' = [reqs EXCEPT ![r].pc = "create"]
  /\ UNCHANGED <<wsVars, roomRows>>

\* the store's insert and what follows createRoom: 201 with the room, or the
\* catch's 500
CreateRoomResume(r, fault) ==
  /\ reqs[r].pc = "create"
  /\ LET room == createRoom([name |-> reqs[r].name, creator_id |-> r], fault) IN
     /\ roomRows' = room.rows
     /\ IF room.threw
        THEN Respond(r, 500, "Failed to create room", NoRow, fault)
        ELSE Respond(r, 201, "", room.room, FALSE)
  /\ UNCHANGED wsVars

NextRooms ==
  \/ \E r \in Reqs : PostRoomsUnauthorized(r)
  \/ \E r \in Reqs : PostRoomsInvalid(r)
  \/ \E r \in Reqs, name \in RoomNames : PostRooms(r, name)
  \/ \E r \in Reqs, fault \in BOOLEAN : GetRoomByNameResume(r, fault)
  \/ \E r \in Reqs, fault \in BOOLEAN : CreateRoomResume(r, fault)

SpecRooms == Init /\ [][NextRooms]_vars

(* ---------------------------------------------------------------- claims *)
Members(k) == IF rooms[k] = NoSet THEN {} ELSE Range(heap[rooms[k]])

Received(c, ev) == \E i \in DOMAIN outbox[c] : outbox[c][i] = ev

Count(c, ev) == Cardinality({i \in DOMAIN outbox[c] : outbox[c][i] = ev})

\* The events a join and a message frame are to be fanned out as.
JoinNotice(f) ==
  [type |-> "join", userId |-> f.frame.userId, username |-> f.frame.username,
   roomId |-> f.frame.roomId, id |-> f.ev.id]

MessageEvent(f) ==
  [type |-> "message", roomId |-> f.frame.roomId, userId |-> f.frame.userId,
   username |-> f.frame.username, content |-> f.frame.content,
   encrypted |-> f.frame.encrypted, id |-> f.ev.id]

\* C1: every connection is contained in at most one room's member set.
C1_MembershipExclusive ==
  \A c \in Conns : Cardinality({k \in RoomIdVals : c \in Members(k)}) <= 1

\* C2: when no handler is in flight, no entry of the table survives whose
\* members are all closed connections.
C2_EmptyRoomGC ==
  pending = {} =>
    \A k \in RoomIdVals :
      rooms[k] # NoSet => \E c \in Members(k) : readyState[c] = "OPEN"

\* The connections that read OPEN.  One that reads OPEN now read OPEN during
\* every earlier forEach: no handler reopens a connection.
Open == {c \in Conns : readyState[c] = "OPEN"}

\* C3: every connection that was in the room's member set when a Message was
\* processed and reads OPEN at the fan-out received the Message with the
\* frame's roomId, userId, username, content and encrypted, the sender included.
C3_BroadcastComplete ==
  \A f \in fanouts :
    f.frame.type = "message" =>
      \A c \in Range(f.atStart) \cap Open : Received(c, MessageEvent(f))

C3_Witness ==
  \E f \in fanouts :
    /\ f.frame.type = "message"
    /\ f.by \in Range(f.atStart) \cap Open
    /\ Cardinality(Range(f.atStart) \cap Open) >= 2
    /\ \A c \in Range(f.atStart) \cap Open : Received(c, MessageEvent(f))

\* C4: a connection that received two Messages of one room received them in
\* the order in which their processing started (the order of their ids).
C4_WithinRoomOrder ==
  \A c \in Conns : \A i, j \in DOMAIN outbox[c] :
    ( /\ i < j
      /\ outbox[c][i].type = "message"
      /\ outbox[c][j].type = "message"
      /\ outbox[c][i].roomId = outbox[c][j].roomId )
    => outbox[c][i].id < outbox[c][j].id

\* C5: when the send to one member throws during a fan-out, every other open
\* member iterated still received the event, and no exception escaped.
C5_FailureIsolated ==
  /\ ~crashed
  /\ \A f \in fanouts :
       \A c \in Range(f.clients) \cap Open : ~sendThrows[c] => Received(c, f.ev)

\* C6: the connection of every Join whose room exists received that join's
\* notice {userId, username, roomId}.
C6_EchoInclusion ==
  \A f \in fanouts :
    f.frame.type = "join" => Received(f.by, JoinNotice(f))

\* C7: a Message whose insert failed (an error result, or an exception) was
\* still sent to every open member of the room, and its handler left every
\* connection open.
C7_PersistenceDecoupled ==
  \A i \in inserts :
    i.result \in {"error", "throw"} =>
      \E f \in fanouts :
        /\ f.ev.id = i.row.id
        /\ f.result = i.result
        /\ \A c \in Range(f.clients) \cap Open : Received(c, MessageEvent(f))
        /\ f.kept

C7_Witness ==
  \E f \in fanouts :
    /\ f.frame.type = "message"
    /\ f.result = "throw"
    /\ Cardinality(Range(f.clients) \cap Open) >= 2
    /\ [row |-> insertRow(f.frame, f.ev.id), result |-> "throw"] \in inserts

\* C8: when a member of room R closes while other members remain, it is
\* removed from R's member set and every remaining open member received
\* exactly one {type: "leave", roomId: R, userId: its userId, username: ""}.
C8_LeaveNotice ==
  \A cl \in closes :
    (cl.conn \in Range(cl.before) /\ Len(cl.before) > 1) =>
      /\ cl.conn \notin Range(cl.after)
      /\ \A d \in (Range(cl.before) \ {cl.conn}) \cap Open :
           Count(d, [type |-> "leave", roomId |-> cl.roomId, userId |-> cl.userId,
                     username |-> "", id |-> 0 - cl.conn]) = 1

\* C9: a Message whose sender was not a member of the room it names when it
\* was processed was sent to no connection.
C9_NonMemberDropped ==
  \A f \in fanouts :
    (f.frame.type = "message" /\ f.by \notin Range(f.atStart)) =>
      \A c \in Conns : ~Received(c, f.ev)

\* C10: a Join whose lookup finds no room, or fails, changes neither the
\* registry nor the table, sends nothing and leaves every connection as open
\* as it was.
C10_FailedJoinNoEffect ==
  [][ \A p \in pending \ pending' :
        ( /\ p.message.type = "join"
          /\ \/ p.message.roomId \notin ExistingRooms
             \/ \E d \in dropped' \ dropped : d.id = p.id )
        => UNCHANGED <<wsUserId, wsRoomId, rooms, heap, outbox, readyState, fanouts>>
    ]_vars

C10_Witness ==
  \E d \in dropped :
    /\ d.why = "no room"
    /\ d.room \in ExistingRooms
    /\ wsRoomId[d.conn] = d.room
    /\ d.conn \in Members(d.room)
    /\ readyState[d.conn] = "OPEN"

\* C11: a frame that is missing a required field (a join without a userId)
\* is dropped: it is fanned out to nobody and it leaves the registry as it was,
\* so no connection has a roomId without a userId.
C11_MalformedDropped ==
  /\ \A f \in fanouts :
       f.frame.type \in {"join", "message"} => f.frame.userId # Undefined
  /\ \A c \in Conns : wsRoomId[c] # Undefined => wsUserId[c] # Undefined

\* C12: the table has an entry for a room exactly when the room's member Set
\* is not empty: no entry holds an empty Set, and a Set the table does not
\* hold has no member.
C12_EntryIffMembers ==
  /\ \A k \in RoomIdVals : rooms[k] # NoSet => heap[rooms[k]] # <<>>
  /\ \A r \in SetRefs : (\A k \in RoomIdVals : rooms[k] # r) => heap[r] = <<>>

\* The last member of a room closed and its entry is gone, while another
\* room still has its entry.
C12_Witness ==
  \E cl \in closes :
    /\ cl.before = <<cl.conn>>
    /\ cl.after = <<>>
    /\ rooms[cl.roomId] = NoSet
    /\ \E k \in RoomIdVals : rooms[k] # NoSet

\* C13: when the only member of a room closes, the step that handles the
\* close deletes the room's entry and sends nothing to any connection.
C13_LastMemberClose ==
  [][ \A c \in Conns : \A k \in RoomIdVals :
        ( /\ readyState[c] = "OPEN"
          /\ readyState'[c] = "CLOSED"
          /\ Members(k) = {c} )
        => (rooms'[k] = NoSet /\ outbox' = outbox)
    ]_vars

\* C14: the step that completes a Join(R, u, name) of an open connection c
\* whose room exists leaves c's registry at (u, R) and R's members at the
\* previous members plus c, and every open member of R, those there before
\* included, then holds exactly one {type: "join", userId: u, username: name,
\* roomId: R} of that join.
C14_JoinApplied ==
  [][ \A p \in pending \ pending' :
        ( /\ p.message.type = "join"
          /\ readyState[p.conn] = "OPEN"
          /\ \E f \in fanouts' \ fanouts : f.ev.id = p.id )
        => LET R == p.message.roomId
               notice == [type |-> "join", userId |-> p.message.userId,
                          username |-> p.message.username, roomId |-> R,
                          id |-> p.id]
           IN
           /\ wsUserId'[p.conn] = p.message.userId
           /\ wsRoomId'[p.conn] = R
           /\ Members(R)' = Members(R) \cup {p.conn}
           /\ \A d \in Members(R)' :
                readyState[d] = "OPEN" => Count(d, notice)' = 1
    ]_vars

\* A join of an open connection into a room that had an open member: both
\* hold the notice and both are members.
C14_Witness ==
  \E f \in fanouts :
    /\ f.frame.type = "join"
    /\ Len(f.clients) >= 2
    /\ Range(f.clients) \subseteq Open
    /\ Range(f.clients) = Members(f.frame.roomId)
    /\ wsRoomId[f.by] = f.frame.roomId
    /\ wsUserId[f.by] = f.frame.userId
    /\ \A d \in Range(f.clients) : Count(d, JoinNotice(f)) = 1

\* C15: no handler closes a connection.  A connection leaves OPEN only in
\* the step that handles its transport's close; and a step in which a frame
\* is dropped (unparsable, unknown type, failed join, no entry) or an insert
\* fails leaves every readyState, every registry field and every member set
\* as it was.
C15_HandlersKeepOpen ==
  [][ /\ \A c \in Conns :
           readyState'[c] # readyState[c] => \E cl \in closes' \ closes : cl.conn = c
      /\ ( \/ dropped' # dropped
           \/ \E i \in inserts' \ inserts : i.result \in {"error", "throw"} )
         => UNCHANGED <<readyState, wsUserId, wsRoomId, rooms, heap>>
    ]_vars

\* A connection whose join failed had a later join and a later message, whose
\* insert failed, processed: it is open, a member, and holds the message.
C15_Witness ==
  \E d \in dropped : \E f \in fanouts :
    /\ d.why = "no room"
    /\ f.by = d.conn
    /\ f.frame.type = "message"
    /\ f.result \in {"error", "throw"}
    /\ f.ev.id > d.id
    /\ d.conn \in Open \cap Members(f.frame.roomId)
    /\ wsRoomId[d.conn] = f.frame.roomId
    /\ Received(d.conn, f.ev)

\* C16: every Message that was fanned out was handed to the store's insert
\* exactly once, with the frame's roomId, userId, content and encrypted; a
\* Message frame that was dropped was never handed to it.
C16_OneAppendPerBroadcast ==
  /\ \A f \in fanouts :
       f.frame.type = "message" =>
         /\ Cardinality({i \in inserts : i.row.id = f.ev.id}) = 1
         /\ \A i \in inserts :
              i.row.id = f.ev.id =>
                i.row = [room_id |-> f.frame.roomId, user_id |-> f.frame.userId,
                         content |-> f.frame.content,
                         encrypted |-> f.frame.encrypted, id |-> f.ev.id]
  /\ \A d \in dropped : \A i \in inserts : i.row.id # d.id

\* An encrypted Message was stored and received by its sender, and another
\* Message frame was dropped for want of an entry.
C16_Witness ==
  \E f \in fanouts : \E d \in dropped :
    /\ f.frame.type = "message"
    /\ f.frame.encrypted
    /\ f.result = "ok"
    /\ Received(f.by, f.ev)
    /\ \E i \in inserts : i.row.id = f.ev.id /\ i.result = "ok"
    /\ d.why = "no entry"

\* C17: the frames of one connection are handled one at a time in arrival
\* order.  While a handler of a connection is suspended no later frame of
\* that connection has been taken up (suspended, dropped for want of an entry
\* or fanned out), and two Messages of one connection reach every receiver in
\* the order sent.
C17_OneAtATime ==
  /\ \A p, q \in pending : p.conn = q.conn => p = q
  /\ \A p \in pending : \A d \in dropped :
       (d.conn = p.conn /\ d.why = "no entry") => d.id < p.id
  /\ \A p \in pending : \A f \in fanouts :
       (f.by = p.conn /\ f.frame.type # "close") => f.ev.id < p.id
  /\ \A f, g \in fanouts :
       ( /\ f.by = g.by
         /\ f.frame.type = "message"
         /\ g.frame.type = "message"
         /\ f.ev.id < g.ev.id )
       => \A d \in Conns : \A i, j \in DOMAIN outbox[d] :
            (outbox[d][i] = f.ev /\ outbox[d][j] = g.ev) => i < j

\* C18: Closed is terminal.  No step changes the registry fields of a
\* connection whose close has been handled, or adds it to a member set.
C18_ClosedTerminal ==
  [][ \A c \in Conns :
        readyState[c] = "CLOSED" =>
          /\ wsUserId'[c] = wsUserId[c]
          /\ wsRoomId'[c] = wsRoomId[c]
          /\ \A k \in RoomIdVals : c \in Members(k)' => c \in Members(k)
    ]_vars

\* C19: the fan-out of a Message does not wait for the insert.  Whenever the
\* handler of a Message is at its insert, every connection that is then an
\* open member of the room eventually holds the Message or has closed,
\* whether or not the insert ever settles.
C19_FanOutNotBlocked ==
  \A id \in 1..MaxEvents : \A c \in Conns :
    (\E p \in pending :
       /\ p.id = id
       /\ p.message.type = "message"
       /\ c \in Range(p.atStart)
       /\ readyState[c] = "OPEN")
    ~> ( \/ readyState[c] = "CLOSED"
         \/ \E i \in DOMAIN outbox[c] :
              outbox[c][i].type = "message" /\ outbox[c][i].id = id )

\* C20: no join is lost, however the room lookups interleave.  The
\* connection of every completed join is a member of the room's one Set
\* unless a close removed it from that room, no Set outside the table holds
\* a member, and no forEach visited a connection twice.
C20_NoJoinLost ==
  /\ \A f \in fanouts :
       f.frame.type = "join" =>
         \/ f.by \in Members(f.frame.roomId)
         \/ \E cl \in closes :
              /\ cl.conn = f.by
              /\ cl.roomId = f.frame.roomId
              /\ f.by \in Range(cl.before) \ Range(cl.after)
  /\ \A r \in SetRefs :
       heap[r] # <<>> => \E k \in RoomIdVals : rooms[k] = r
  /\ \A f \in fanouts : Len(f.clients) = Cardinality(Range(f.clients))

\* Two connections joined a room that had no entry, the lookup of the join
\* received second resolving first: the room's one Set holds both.
C20_Witness ==
  \E f \in fanouts : \E g \in fanouts :
    /\ f.frame.type = "join"
    /\ g.frame.type = "join"
    /\ f.frame.roomId = g.frame.roomId
    /\ f.by # g.by
    /\ f.ev.id < g.ev.id
    /\ g.clients = <<g.by>>
    /\ f.clients = <<g.by, f.by>>
    /\ rooms[f.frame.roomId] # NoSet
    /\ heap[rooms[f.frame.roomId]] = <<g.by, f.by>>

\* C21: join is idempotent.  The step that completes a Join of a connection
\* for a room it is already a member of leaves the table and every member set
\* as they were, and no member set ever holds a connection twice.
C21_JoinIdempotent ==
  [][ /\ \A p \in pending \ pending' :
           ( /\ p.message.type = "join"
             /\ \E f \in fanouts' \ fanouts : f.ev.id = p.id
             /\ p.conn \in Members(p.message.roomId) )
           => (rooms' = rooms /\ heap' = heap)
      /\ \A r \in SetRefs : Len(heap'[r]) = Cardinality(Range(heap'[r]))
    ]_vars

\* One connection completed two joins for the same room, the second finding
\* it a member: the room's Set holds it once, beside another member.
C21_Witness ==
  \E f \in fanouts : \E g \in fanouts :
    /\ f.frame.type = "join"
    /\ g.frame.type = "join"
    /\ f.by = g.by
    /\ f.frame.roomId = g.frame.roomId
    /\ f.ev.id < g.ev.id
    /\ g.clients = f.clients
    /\ rooms[f.frame.roomId] # NoSet
    /\ heap[rooms[f.frame.roomId]] = g.clients
    /\ Len(g.clients) = 2
    /\ Count(f.by, g.ev) = 1

\* C22: storage.getRoom(id) of an id no room has returns undefined and does
\* not throw: so it is for the lookup of every join in flight, when the store
\* itself is sound.
C22_GetRoomUndefined ==
  \A p \in pending :
    (p.message.type = "join" /\ p.message.roomId \notin ExistingRooms) =>
      GetRoom(p.message.roomId, FALSE) = [threw |-> FALSE, room |-> Undefined]

\* C23: of the authenticated requests that carry one room name, however
\* their name checks and their createRoom interleave, one is answered 201
\* with the room and every other 400 "Room name already exists", and the
\* table holds one row of that name at most.  Requests the store failed for
\* are set aside.
C23_CreateRoomRace ==
  \A n \in RoomNames :
    LET asked == {r \in Reqs : reqs[r].name = n}
        answered == {r \in asked : reqs[r].pc = "done" /\ ~reqs[r].fault}
        created == {r \in answered : reqs[r].status = 201}
    IN
    /\ Cardinality({row \in roomRows : row.name = n}) <= 1
    /\ Cardinality(created) <= 1
    /\ \A r \in created : reqs[r].room = [name |-> n, creator_id |-> r]
    /\ \A r \in answered \ created :
         reqs[r].status = 400 /\ reqs[r].message = "Room name already exists"
    /\ (answered # {} /\ answered = asked) => created # {}

\* C24: whenever no handler is in flight, every connection in a member set
\* is open.
C24_MembersOpen ==
  pending = {} =>
    \A k \in RoomIdVals : \A c \in Members(k) : readyState[c] = "OPEN"

\* C25: the step that fans a Message out sends it to every open member of
\* the entry the table has for the Message's roomId at that moment.
C25_CurrentEntryRecipients ==
  [][ \A p \in pending \ pending' :
        ( /\ p.message.type = "message"
          /\ \E f \in fanouts' \ fanouts : f.ev.id = p.id )
        => \A c \in Members(p.message.roomId) :
             readyState[c] = "OPEN" =>
               \E i \in DOMAIN outbox'[c] :
                 outbox'[c][i] = messageToSend(p.message, p.id)
    ]_vars

\* C26: the userId and the roomId of every Message that a connection which
\* joined with a userId has fanned out are those it joined with (ws.userId,
\* ws.roomId when the sends happen), and so are those of the row handed to
\* the store.
C26_SenderIdentity ==
  [][ \A p \in pending \ pending' :
        ( /\ p.message.type = "message"
          /\ \E f \in fanouts' \ fanouts : f.ev.id = p.id
          /\ wsUserId[p.conn] # Undefined
          /\ wsRoomId[p.conn] # Undefined )
        => /\ messageToSend(p.message, p.id).userId = wsUserId[p.conn]
           /\ messageToSend(p.message, p.id).roomId = wsRoomId[p.conn]
           /\ insertRow(p.message, p.id).user_id = wsUserId[p.conn]
           /\ insertRow(p.message, p.id).room_id = wsRoomId[p.conn]
    ]_vars

\* C27: every open connection whose ws.roomId is set to R is in the member
\* set of the entry the table has for R.
C27_RegistryConsistent ==
  \A c \in Conns :
    (readyState[c] = "OPEN" /\ wsRoomId[c] # Undefined) =>
      /\ rooms[wsRoomId[c]] # NoSet
      /\ c \in Members(wsRoomId[c])

\* A member of a room closed and was removed while another member, open and
\* registered for that room, stays in the room's entry.
C27_Witness ==
  \E cl \in closes :
    /\ cl.conn \in Range(cl.before) \ Range(cl.after)
    /\ \E c \in Range(cl.after) \cap Open :
         /\ wsRoomId[c] = cl.roomId
         /\ c \in Members(cl.roomId)

\* C28: a connection is sent an event of room R only after a Join of its
\* own for R was completed: the notice of that join stands in what it was
\* sent, at or before the event.
C28_OnlyJoinedRooms ==
  \A c \in Conns : \A i \in DOMAIN outbox[c] :
    \E f \in fanouts :
      /\ f.frame.type = "join"
      /\ f.by = c
      /\ f.frame.roomId = outbox[c][i].roomId
      /\ \E j \in 1..i : outbox[c][j] = f.ev

\* A connection was sent a Message of the room it joined, while another open
\* connection, joined to another room, was sent nothing of that room.
C28_Witness ==
  \E c \in Conns : \E d \in Open \ {c} :
    /\ outbox[d] # <<>>
    /\ \E i \in DOMAIN outbox[c] :
         /\ outbox[c][i].type = "message"
         /\ outbox[c][i].roomId = wsRoomId[c]
         /\ \A j \in DOMAIN outbox[d] : outbox[d][j].roomId # outbox[c][i].roomId

\* C29: the members of a room are sent the room's events in one order.  Two
\* events of one room that two connections were both sent stand in the same
\* order in both, and no connection was sent one fanned-out event twice.
C29_SameOrder ==
  /\ \A c \in Conns : \A d \in Conns :
       \A i, j \in DOMAIN outbox[c] : \A k, l \in DOMAIN outbox[d] :
         ( /\ i < j
           /\ outbox[c][i].roomId = outbox[c][j].roomId
           /\ outbox[c][i] = outbox[d][k]
           /\ outbox[c][j] = outbox[d][l] )
         => k < l
  /\ \A c \in Conns : \A i, j \in DOMAIN outbox[c] :
       outbox[c][i] = outbox[c][j] => i = j

\* Two connections were both sent a join notice and then a Message of one
\* room.
C29_Witness ==
  \E c \in Conns : \E d \in Conns \ {c} :
    \E i, j \in DOMAIN outbox[c] : \E k, l \in DOMAIN outbox[d] :
      /\ i < j
      /\ k < l
      /\ outbox[c][i].type = "join"
      /\ outbox[c][j].type = "message"
      /\ outbox[c][i].roomId = outbox[c][j].roomId
      /\ outbox[c][i] = outbox[d][k]
      /\ outbox[c][j] = outbox[d][l]

\* C30: a frame of type "leave" has no effect.  The step that handles it
\* changes no registry field, no entry, no member set and no readyState,
\* sends nothing, stores nothing and suspends no handler.
C30_LeaveIgnored ==
  [][ (\E d \in dropped' \ dropped : d.why = "type")
        => UNCHANGED <<readyState, wsUserId, wsRoomId, rooms, heap, pending,
                       outbox, inserts, fanouts, closes>>
    ]_vars

\* A member of a room sent a "leave" and, still open and a member, was sent
\* a later Message of that room.
C30_Witness ==
  \E d \in dropped :
    /\ d.why = "type"
    /\ d.room \in RoomIdVals
    /\ wsRoomId[d.conn] = d.room
    /\ d.conn \in Open \cap Members(d.room)
    /\ \E i \in DOMAIN outbox[d.conn] :
         /\ outbox[d.conn][i].type = "message"
         /\ outbox[d.conn][i].roomId = d.room
         /\ outbox[d.conn][i].id > d.id
====
